---- MODULE Spec2Model ----
(***************************************************************************)
(* A model of ftl.py: the extraction of the current URL of every tab of a  *)
(* Firefox session (get_window_tab_urls), the grouping of the windows by   *)
(* workspace (get_urls_by_window_by_workspace), the selection of           *)
(* workspaces and windows (select_urls) and the cli pipeline around them.  *)
(*                                                                         *)
(* Python values are modelled as follows.                                  *)
(*   - a list or a tuple is a sequence;                                    *)
(*   - a dict is the sequence of its <<key, value>> pairs in insertion     *)
(*     order, with distinct keys (Python dicts keep insertion order);      *)
(*   - a call that may raise returns Ok(value) or Raise(exception name);   *)
(*   - the `index` of a tab is [int |-> n] when the JSON holds a number    *)
(*     and [str |-> <<c1, ..., ck>>] (its characters) when it holds a      *)
(*     string.                                                             *)
(***************************************************************************)
EXTENDS Integers, Sequences, FiniteSets, TLC

\* ------------------------------------------------------------- bounds
\* the longest history (`entries`) of a tab
MaxHist == 2
\* the largest number of tabs in a window handed to get_window_tab_urls
MaxTabs == 2
\* the largest number of windows in a session document
MaxWindows == 3
\* the largest number of workspaces in a map handed to select_urls
MaxWs == 2

\* ------------------------------------------------------------- values
Ok(v) == [ok |-> TRUE, val |-> v]
Raise(e) == [ok |-> FALSE, err |-> e]

\* the keys of a dict, as a set and in insertion order
Keys(d) == {d[i][1] : i \in 1..Len(d)}
KeyList(d) == [i \in 1..Len(d) |-> d[i][1]]
\* d[k], for a key k of d
Get(d, k) == d[CHOOSE i \in 1..Len(d) : d[i][1] = k][2]
IsDict(d) == \A i, j \in 1..Len(d) : d[i][1] = d[j][1] => i = j

\* s is t with some elements removed, the others in t's order
RECURSIVE IsSubsequence(_, _)
IsSubsequence(s, t) ==
    IF s = <<>> THEN TRUE
    ELSE IF t = <<>> THEN FALSE
    ELSE IF Head(s) = Head(t) THEN IsSubsequence(Tail(s), Tail(t))
    ELSE IsSubsequence(s, Tail(t))

\* all sequences over S of length at most n
SeqsUpTo(S, n) == UNION {[1..k -> S] : k \in 0..n}

DigitChars == <<"0", "1", "2", "3", "4", "5", "6", "7", "8", "9">>
IsDigit(c) == \E d \in 1..10 : DigitChars[d] = c
DigitVal(c) == (CHOOSE d \in 1..10 : DigitChars[d] = c) - 1

\* str(n) for an int n >= 0
RECURSIVE PyStr(_)
PyStr(n) ==
    IF n < 10 THEN DigitChars[n + 1]
    ELSE PyStr(n \div 10) \o DigitChars[(n % 10) + 1]

\* the value of the decimal digits cs, most significant first
RECURSIVE DecimalValue(_)
DecimalValue(cs) ==
    IF cs = <<>> THEN 0
    ELSE 10 * DecimalValue(SubSeq(cs, 1, Len(cs) - 1)) + DigitVal(cs[Len(cs)])

\* int(x): an int is returned as it is, a string of decimal digits is parsed,
\* any other string raises ValueError
PyInt(x) ==
    IF "int" \in DOMAIN x THEN Ok(x.int)
    ELSE IF x.str # <<>> /\ \A i \in 1..Len(x.str) : IsDigit(x.str[i])
         THEN Ok(DecimalValue(x.str))
         ELSE Raise("ValueError")

\* list[i] with Python's 0-based positions: a negative position counts from
\* the end of the list, a position outside the list raises IndexError
PyListIndex(list, i) ==
    IF 0 <= i /\ i < Len(list) THEN Ok(list[i + 1])
    ELSE IF i < 0 /\ -Len(list) <= i THEN Ok(list[Len(list) + i + 1])
    ELSE Raise("IndexError")

\* CurrentUrl with the index taken as a 0-based position
CurrentUrlZeroBased(tab) ==
    LET i == PyInt(tab.index)
    IN  IF ~i.ok THEN i
        ELSE LET e == PyListIndex(tab.entries, i.val)
             IN  IF ~e.ok THEN e ELSE Ok(e.val.url)

\* ------------------------------------------------------------- URL extractor
\* tab["entries"][int(tab["index"]) - 1]["url"]
CurrentUrl(tab) ==
    LET i == PyInt(tab.index)
    IN  IF ~i.ok THEN i
        ELSE LET e == PyListIndex(tab.entries, i.val - 1)
             IN  IF ~e.ok THEN e ELSE Ok(e.val.url)

\* the list comprehension over window["tabs"]: the first tab that raises ends it
get_window_tab_urls(window) ==
    LET urls == [i \in 1..Len(window.tabs) |-> CurrentUrl(window.tabs[i])]
        bad == {i \in 1..Len(urls) : ~urls[i].ok}
    IN  IF bad = {} THEN Ok([i \in 1..Len(urls) |-> urls[i].val])
        ELSE Raise(urls[CHOOSE i \in bad : \A j \in bad : i <= j].err)

\* ------------------------------------------------------------- inputs
URLS == <<"http://a.com", "http://b.com", "http://c.com">>
\* the history of n entries that starts at the s-th URL and goes round URLS
History(n, s) == [i \in 1..n |-> [url |-> URLS[((s + i - 2) % Len(URLS)) + 1]]]
Histories == {History(n, s) : n \in 0..MaxHist, s \in 1..2}
\* the indexes 0 .. MaxHist + 1, each as a number and as a decimal string
Indexes ==
    {[int |-> n] : n \in 0..(MaxHist + 1)}
        \cup {[str |-> <<PyStr(n)>>] : n \in 0..(MaxHist + 1)}
Tabs == {[entries |-> h, index |-> x] : h \in Histories, x \in Indexes}
TabLists == SeqsUpTo(Tabs, MaxTabs)

\* ------------------------------------------------------------- workspace grouper
\* window["workspaceID"]
get_window_workspace_id(window) == window.workspaceID

\* the workspace identifiers of the model, in Python's string order
\* ("0" < "1" < "w1"); two of them read like window indexes
WsOrder == <<"0", "1", "w1">>
WsIds == {WsOrder[i] : i \in 1..Len(WsOrder)}
StrRank(s) == CHOOSE i \in 1..Len(WsOrder) : WsOrder[i] = s
\* a <= b on strings
StrLe(a, b) == StrRank(a) <= StrRank(b)

\* InsertSorted as an unstable sort would do it: x goes before the elements
\* with its own key
InsertSortedUnstable(s, x) ==
    LET n == Cardinality({i \in 1..Len(s) :
                 StrRank(s[i].workspaceID) < StrRank(x.workspaceID)})
    IN  SubSeq(s, 1, n) \o <<x>> \o SubSeq(s, n + 1, Len(s))

\* x put into the sorted list s behind every element whose key is not greater
InsertSorted(s, x) ==
    LET n == Cardinality({i \in 1..Len(s) :
                 StrLe(get_window_workspace_id(s[i]), get_window_workspace_id(x))})
    IN  SubSeq(s, 1, n) \o <<x>> \o SubSeq(s, n + 1, Len(s))

\* sorted(windows, key=get_window_workspace_id): a stable sort
RECURSIVE sorted(_)
sorted(windows) ==
    IF windows = <<>> THEN <<>>
    ELSE InsertSorted(sorted(SubSeq(windows, 1, Len(windows) - 1)),
                      windows[Len(windows)])

\* itertools.groupby(windows, get_window_workspace_id): the maximal runs of
\* adjacent windows with one key, as <<key, run>> pairs
RECURSIVE groupby(_)
groupby(windows) ==
    IF windows = <<>> THEN <<>>
    ELSE LET k == get_window_workspace_id(windows[1])
             differ == {i \in 1..Len(windows) : get_window_workspace_id(windows[i]) # k}
             n == IF differ = {} THEN Len(windows)
                  ELSE (CHOOSE i \in differ : \A j \in differ : i <= j) - 1
         IN  <<<<k, SubSeq(windows, 1, n)>>>>
                 \o groupby(SubSeq(windows, n + 1, Len(windows)))

\* {str(index): get_window_tab_urls(window) for index, window in enumerate(windows)}
\* with every call's outcome kept
EnumerateWindows(windows) ==
    [i \in 1..Len(windows) |-> <<PyStr(i - 1), get_window_tab_urls(windows[i])>>]

\* the exception of the first window, in iteration order, whose URLs cannot be
\* extracted; "" when there is none
RECURSIVE FirstError(_)
FirstError(groups) ==
    IF groups = <<>> THEN ""
    ELSE LET ws == groups[1][2]
             bad == {i \in 1..Len(ws) : ~ws[i][2].ok}
         IN  IF bad # {} THEN ws[CHOOSE i \in bad : \A j \in bad : i <= j][2].err
             ELSE FirstError(Tail(groups))

get_urls_by_window_by_workspace(session) ==
    IF "windows" \notin DOMAIN session THEN Raise("KeyError")
    ELSE LET runs == groupby(sorted(session.windows))
             groups == [g \in 1..Len(runs) |->
                           <<runs[g][1], EnumerateWindows(runs[g][2])>>]
         IN  IF FirstError(groups) # "" THEN Raise(FirstError(groups))
             ELSE Ok([g \in 1..Len(groups) |->
                        <<groups[g][1],
                          [i \in 1..Len(groups[g][2]) |->
                              <<groups[g][2][i][1], groups[g][2][i][2].val>>]>>])

\* ------------------------------------------------------------- session documents
Tab(h, x) == [entries |-> h, index |-> x]
\* the tab lists of the windows of a session document: no tab, one tab, two
\* tabs (one with its index as a string), and one tab whose index is past
\* the end of its history
SessionTabLists ==
    { <<>>,
      <<Tab(History(2, 1), [int |-> 2])>>,
      <<Tab(History(1, 1), [str |-> <<"1">>]), Tab(History(2, 2), [int |-> 2])>>,
      <<Tab(History(1, 1), [int |-> 2])>> }
Windows == {[workspaceID |-> w, tabs |-> t] : w \in WsIds, t \in SessionTabLists}
\* a decoded JSON root without the `windows` field
NoWindowsDocument == [selectedWindow |-> 1]
Sessions ==
    {[windows |-> ws] : ws \in SeqsUpTo(Windows, MaxWindows)} \cup {NoWindowsDocument}

\* ------------------------------------------------------------- selector
\* `workspace_ids or windows.keys()`, `window_ids or windows.keys()`: the
\* filter, or the keys of `windows` when the filter is empty.  A filter is a
\* tuple of strings of which the code uses only whether it is empty and what
\* is a member of it: it is modelled as the set of its members.
OrWindowKeys(ids, windows) == IF ids # {} THEN ids ELSE Keys(windows)

\* the inner comprehension: the windows of one workspace that are selected
SelectWindows(windows, window_ids) ==
    LET Selected(item) == item[1] \in OrWindowKeys(window_ids, windows)
    IN  SelectSeq(windows, Selected)

\* select_urls dropping the selected workspaces none of whose windows is selected
select_urls_DropEmpty(urls, workspace_ids, window_ids) ==
    LET Selected(item) ==
            /\ item[1] \in OrWindowKeys(workspace_ids, item[2])
            /\ SelectWindows(item[2], window_ids) # <<>>
        kept == SelectSeq(urls, Selected)
    IN  [i \in 1..Len(kept) |->
            <<kept[i][1], SelectWindows(kept[i][2], window_ids)>>]

\* select_urls building its result from the filter: one entry for every
\* requested workspace, in the filter's order, present in the map or not
select_urls_ByFilter(urls, workspace_ids, window_ids) ==
    LET ids == IF workspace_ids # {} THEN workspace_ids ELSE Keys(urls)
        Requested(w) == w \in ids
        order == SelectSeq(WsOrder, Requested)
    IN  [i \in 1..Len(order) |->
            <<order[i],
              IF order[i] \in Keys(urls)
              THEN SelectWindows(Get(urls, order[i]), window_ids)
              ELSE <<>>>>]

select_urls(urls, workspace_ids, window_ids) ==
    LET Selected(item) == item[1] \in OrWindowKeys(workspace_ids, item[2])
        kept == SelectSeq(urls, Selected)
    IN  [i \in 1..Len(kept) |->
            <<kept[i][1], SelectWindows(kept[i][2], window_ids)>>]

\* ------------------------------------------------------------- maps to select from
WindowIds == {"0", "1"}
\* the tab URLs stored under a window of a workspace: different for every
\* window of the map
TabUrlsOf(ws, win) == <<"http://" \o ws \o ".org/" \o win>>
\* the window keys of a workspace, in every insertion order
WindowKeyLists == {k \in SeqsUpTo(WindowIds, Cardinality(WindowIds)) : IsDict([i \in 1..Len(k) |-> <<k[i], 0>>])}
WindowMaps(ws) ==
    {[i \in 1..Len(k) |-> <<k[i], TabUrlsOf(ws, k[i])>>] : k \in WindowKeyLists}
\* the maps whose workspaces are the list ids, in that order
RECURSIVE MapsOver(_)
MapsOver(ids) ==
    IF ids = <<>> THEN {<<>>}
    ELSE {<<<<ids[1], w>>>> \o rest : w \in WindowMaps(ids[1]), rest \in MapsOver(Tail(ids))}
WorkspaceKeyLists == {k \in SeqsUpTo(WsIds, MaxWs) : IsDict([i \in 1..Len(k) |-> <<k[i], 0>>])}
WorkspaceMaps == UNION {MapsOver(k) : k \in WorkspaceKeyLists}

\* ------------------------------------------------------------- decoder and cli
\* the recovery file of the session directory: absent, not a compressed
\* block (or shorter than its header), not JSON, or a JSON document
NoFile == [kind |-> "missing"]
CorruptFile == [kind |-> "corrupt"]
NotJsonFile == [kind |-> "notjson"]
JsonFile(root) == [kind |-> "json", root |-> root]

\* get_session_data checking the JSON root for its `windows` field
get_session_data_Validating(recovery_file) ==
    IF recovery_file.kind = "missing" THEN Raise("FileNotFoundError")
    ELSE IF recovery_file.kind = "corrupt" THEN Raise("LZ4BlockError")
    ELSE IF recovery_file.kind = "notjson" THEN Raise("JSONDecodeError")
    ELSE IF "windows" \notin DOMAIN recovery_file.root THEN Raise("KeyError")
    ELSE Ok(recovery_file.root)

\* open(), lz4.block.decompress(), decode() and json.loads(): the parsed
\* JSON root is returned as it is
get_session_data(recovery_file) ==
    IF recovery_file.kind = "missing" THEN Raise("FileNotFoundError")
    ELSE IF recovery_file.kind = "corrupt" THEN Raise("LZ4BlockError")
    ELSE IF recovery_file.kind = "notjson" THEN Raise("JSONDecodeError")
    ELSE Ok(recovery_file.root)

\* max() over the matching directories: ValueError when there is none
search_for_session_dir(has_profile) ==
    IF has_profile THEN Ok("found") ELSE Raise("ValueError")

\* json.dumps(output_object, indent=4): the text written to the target
JsonDumps(obj) == [json |-> obj, indent |-> 4]

None == "None"

\* the sessions the cli is run on
CliTabLists ==
    { <<Tab(History(2, 1), [int |-> 2])>>,
      <<Tab(History(1, 1), [int |-> 2])>> }
CliWindows == {[workspaceID |-> w, tabs |-> t] : w \in {"0", "w1"}, t \in CliTabLists}
CliFiles ==
    {NoFile, CorruptFile, NotJsonFile, JsonFile(NoWindowsDocument)}
        \cup {JsonFile([windows |-> ws]) : ws \in SeqsUpTo(CliWindows, MaxWindows)}

NoWindow == [workspaceID |-> "w1", tabs |-> <<>>]
NoSession == [windows |-> <<>>]

VARIABLES
    pc,                  \* the position in the function or in cli
    error,               \* the exception that ended the run, "" when none
    window,              \* get_window_tab_urls: its argument
    tab_urls,            \* get_window_tab_urls: its result
    session,             \* the session document
    all_workspace_urls,  \* the map of all workspaces
    workspace_ids,       \* select_urls: the workspaces to select (--workspace)
    window_ids,          \* select_urls: the windows to select (--window)
    output_object,       \* the selected map
    reselected,          \* select_urls applied to output_object again
    find_session_dir,    \* cli: --find-session-dir
    session_dir,         \* cli: --session-dir, None when not given
    has_profile,         \* the firefox dir holds a directory matching *.default*
    recovery_file,       \* the recovery file of the session directory
    target               \* the texts written to --target

vars ==
    <<pc, error, window, tab_urls, session, all_workspace_urls, workspace_ids,
      window_ids, output_object, reselected, find_session_dir, session_dir,
      has_profile, recovery_file, target>>

extract_vars == <<window, tab_urls>>
select_vars == <<workspace_ids, window_ids, output_object, reselected>>
cli_vars == <<find_session_dir, session_dir, has_profile, recovery_file, target>>

InitNoExtract == window = NoWindow /\ tab_urls = <<>>
InitNoSelect ==
    /\ workspace_ids = {}
    /\ window_ids = {}
    /\ output_object = <<>>
    /\ reselected = <<>>
InitNoCli ==
    /\ find_session_dir = FALSE
    /\ session_dir = None
    /\ has_profile = FALSE
    /\ recovery_file = NoFile
    /\ target = <<>>

\* ------------------------------------------------------------- get_window_tab_urls alone
InitExtract ==
    /\ pc = "extract"
    /\ error = ""
    /\ window \in {[workspaceID |-> "w1", tabs |-> t] : t \in TabLists}
    /\ tab_urls = <<>>
    /\ session = NoSession
    /\ all_workspace_urls = <<>>
    /\ InitNoSelect
    /\ InitNoCli

ExtractWindow ==
    /\ pc = "extract"
    /\ LET r == get_window_tab_urls(window)
       IN  IF r.ok
           THEN /\ tab_urls' = r.val
                /\ error' = ""
                /\ pc' = "returned"
           ELSE /\ tab_urls' = tab_urls
                /\ error' = r.err
                /\ pc' = "raised"
    /\ UNCHANGED <<window, session, all_workspace_urls, select_vars, cli_vars>>

NextExtract == ExtractWindow

SpecExtract == InitExtract /\ [][NextExtract]_vars

\* ------------------------------------------------------------- get_urls_by_window_by_workspace alone
InitGroup ==
    /\ pc = "group"
    /\ error = ""
    /\ session \in Sessions
    /\ all_workspace_urls = <<>>
    /\ InitNoExtract
    /\ InitNoSelect
    /\ InitNoCli

GroupSession ==
    /\ pc = "group"
    /\ LET r == get_urls_by_window_by_workspace(session)
       IN  IF r.ok
           THEN /\ all_workspace_urls' = r.val
                /\ error' = ""
                /\ pc' = "grouped"
           ELSE /\ all_workspace_urls' = all_workspace_urls
                /\ error' = r.err
                /\ pc' = "raised"
    /\ UNCHANGED <<session, extract_vars, select_vars, cli_vars>>

NextGroup == GroupSession

SpecGroup == InitGroup /\ [][NextGroup]_vars

\* ------------------------------------------------------------- select_urls alone, applied twice
InitSelect ==
    /\ pc = "select"
    /\ error = ""
    /\ all_workspace_urls \in WorkspaceMaps
    /\ workspace_ids \in SUBSET WsIds
    /\ window_ids \in SUBSET WindowIds
    /\ output_object = <<>>
    /\ reselected = <<>>
    /\ session = NoSession
    /\ InitNoExtract
    /\ InitNoCli

SelectUrls ==
    /\ pc = "select"
    /\ output_object' = select_urls(all_workspace_urls, workspace_ids, window_ids)
    /\ pc' = "selected"
    /\ UNCHANGED <<error, session, all_workspace_urls, workspace_ids, window_ids,
                   reselected, extract_vars, cli_vars>>

SelectAgain ==
    /\ pc = "selected"
    /\ reselected' = select_urls(output_object, workspace_ids, window_ids)
    /\ pc' = "reselected"
    /\ UNCHANGED <<error, session, all_workspace_urls, workspace_ids, window_ids,
                   output_object, extract_vars, cli_vars>>

NextSelect == SelectUrls \/ SelectAgain

SpecSelect == InitSelect /\ [][NextSelect]_vars

\* ------------------------------------------------------------- cli
InitCli ==
    /\ pc = "start"
    /\ error = ""
    /\ find_session_dir \in BOOLEAN
    /\ session_dir \in {None, "given"}
    /\ has_profile \in BOOLEAN
    /\ recovery_file \in CliFiles
    /\ workspace_ids \in SUBSET {"0", "w1"}
    /\ window_ids \in SUBSET WindowIds
    /\ target = <<>>
    /\ session = NoSession
    /\ all_workspace_urls = <<>>
    /\ output_object = <<>>
    /\ reselected = <<>>
    /\ InitNoExtract

\* an exception leaves cli: the run ends
CliFail(e) ==
    /\ error' = e
    /\ pc' = "failed"

\* lines 212-220: the session directory is searched for, taken as given, or
\* the run ends at once
CliResolve ==
    /\ pc = "start"
    /\ IF find_session_dir
       THEN LET r == search_for_session_dir(has_profile)
            IN  IF r.ok
                THEN session_dir' = r.val /\ pc' = "decode" /\ error' = error
                ELSE session_dir' = session_dir /\ CliFail(r.err)
       ELSE IF session_dir # None
            THEN session_dir' = session_dir /\ pc' = "decode" /\ error' = error
            ELSE session_dir' = session_dir /\ pc' = "done" /\ error' = error
    /\ UNCHANGED <<session, all_workspace_urls, select_vars, extract_vars,
                   find_session_dir, has_profile, recovery_file, target>>

\* line 223: get_session_data(session_dir / ... / "recovery.jsonlz4")
CliDecode ==
    /\ pc = "decode"
    /\ LET r == get_session_data(recovery_file)
       IN  IF r.ok
           THEN session' = r.val /\ pc' = "group" /\ error' = error
           ELSE session' = session /\ CliFail(r.err)
    /\ UNCHANGED <<all_workspace_urls, select_vars, extract_vars, cli_vars>>

\* CliGroup writing the empty map when the grouping fails
CliGroupBestEffort ==
    /\ pc = "group"
    /\ LET r == get_urls_by_window_by_workspace(session)
       IN  IF r.ok
           THEN /\ all_workspace_urls' = r.val /\ pc' = "select" /\ error' = error
                /\ target' = target
           ELSE /\ all_workspace_urls' = all_workspace_urls /\ CliFail(r.err)
                /\ target' = Append(target, JsonDumps(<<>>))
    /\ UNCHANGED <<session, select_vars, extract_vars, find_session_dir,
                   session_dir, has_profile, recovery_file>>

\* line 222: get_urls_by_window_by_workspace(...)
CliGroup ==
    /\ pc = "group"
    /\ LET r == get_urls_by_window_by_workspace(session)
       IN  IF r.ok
           THEN all_workspace_urls' = r.val /\ pc' = "select" /\ error' = error
           ELSE all_workspace_urls' = all_workspace_urls /\ CliFail(r.err)
    /\ UNCHANGED <<session, select_vars, extract_vars, cli_vars>>

\* line 225: select_urls(all_workspace_urls, workspace, window)
CliSelect ==
    /\ pc = "select"
    /\ output_object' = select_urls(all_workspace_urls, workspace_ids, window_ids)
    /\ pc' = "write"
    /\ UNCHANGED <<error, session, all_workspace_urls, workspace_ids, window_ids,
                   reselected, extract_vars, cli_vars>>

\* line 227: target.write(json.dumps(output_object, indent=4))
CliWrite ==
    /\ pc = "write"
    /\ target' = Append(target, JsonDumps(output_object))
    /\ pc' = "done"
    /\ UNCHANGED <<error, session, all_workspace_urls, select_vars, extract_vars,
                   find_session_dir, session_dir, has_profile, recovery_file>>

NextCli == CliResolve \/ CliDecode \/ CliGroup \/ CliSelect \/ CliWrite

SpecCli == InitCli /\ [][NextCli]_vars

\* ============================================================= properties
\* the number a tab's index stands for
IndexNumber(x) == IF "int" \in DOMAIN x THEN x.int ELSE DecimalValue(x.str)
\* 1 <= currentIndex <= length(history)
WellFormedTab(tab) ==
    1 <= IndexNumber(tab.index) /\ IndexNumber(tab.index) <= Len(tab.entries)
WellFormedWindow(w) == \A i \in 1..Len(w.tabs) : WellFormedTab(w.tabs[i])
\* currentIndex is 0 or greater than length(history)
InvalidIndexTab(tab) ==
    IndexNumber(tab.index) = 0 \/ IndexNumber(tab.index) > Len(tab.entries)
\* the window with every index given as a number
WithIntIndexes(w) ==
    [w EXCEPT !.tabs = [i \in 1..Len(w.tabs) |->
        [w.tabs[i] EXCEPT !.index = [int |-> IndexNumber(w.tabs[i].index)]]]]

\* C4: a window with a tab whose currentIndex is 0 or exceeds the length of
\* its history makes get_window_tab_urls raise, and no URL list is produced.
C4_InvalidIndexRaises ==
    (pc # "extract" /\ \E i \in 1..Len(window.tabs) : InvalidIndexTab(window.tabs[i]))
        => (pc = "raised" /\ error # "" /\ tab_urls = <<>>)

\* C8: for a window whose tabs all satisfy 1 <= currentIndex <= length(history),
\* get_window_tab_urls returns one URL per tab, in tab order, the i-th being
\* history[currentIndex - 1].url of the i-th tab, a member of that tab's
\* history; an index given as a decimal string gives what the same number gives.
C8_CurrentUrlPerTab ==
    (pc # "extract" /\ WellFormedWindow(window)) =>
        /\ pc = "returned"
        /\ Len(tab_urls) = Len(window.tabs)
        /\ \A i \in 1..Len(window.tabs) :
              LET tab == window.tabs[i]
              IN  /\ tab_urls[i] = tab.entries[IndexNumber(tab.index)].url
                  /\ \E j \in 1..Len(tab.entries) : tab_urls[i] = tab.entries[j].url
        /\ Ok(tab_urls) = get_window_tab_urls(WithIntIndexes(window))

\* two different well-formed tabs, the first with its index as the string "2",
\* whose current URLs are the same
C8_Witness ==
    /\ pc = "returned"
    /\ Len(window.tabs) = 2
    /\ WellFormedWindow(window)
    /\ window.tabs[1].index = [str |-> <<"2">>]
    /\ window.tabs[1].entries # window.tabs[2].entries
    /\ tab_urls[1] = tab_urls[2]

\* the windows of the session with workspace identifier ws, in session order
RunOf(ws) ==
    LET InWorkspace(w) == w.workspaceID = ws
    IN  SelectSeq(session.windows, InWorkspace)

\* C5: the map returned by get_urls_by_window_by_workspace has exactly the
\* workspace identifiers of the session's windows as keys (none for an empty
\* session), and under identifier ws, with windows X0..X(n-1) in session
\* order, exactly the keys "0".."n-1", key str(i) holding the URL list of Xi.
C5_GroupedByWorkspace ==
    /\ pc = "grouped" =>
        /\ IsDict(all_workspace_urls)
        /\ Keys(all_workspace_urls)
              = {session.windows[i].workspaceID : i \in 1..Len(session.windows)}
        /\ \A ws \in Keys(all_workspace_urls) :
              LET run == RunOf(ws)
                  m == Get(all_workspace_urls, ws)
              IN  /\ IsDict(m)
                  /\ Len(m) = Len(run)
                  /\ Keys(m) = {PyStr(i - 1) : i \in 1..Len(run)}
                  /\ \A i \in 1..Len(run) :
                        Ok(Get(m, PyStr(i - 1))) = get_window_tab_urls(run[i])
    /\ pc = "raised" =>
        \/ "windows" \notin DOMAIN session
        \/ \E i \in 1..Len(session.windows) : ~get_window_tab_urls(session.windows[i]).ok

\* three windows, the first and the third in one workspace with different URL
\* lists, the second in a workspace that sorts before it
C5_Witness ==
    /\ pc = "grouped"
    /\ Len(session.windows) = 3
    /\ session.windows[1].workspaceID = "w1"
    /\ session.windows[2].workspaceID = "0"
    /\ session.windows[3].workspaceID = "w1"
    /\ session.windows[1].tabs # <<>>
    /\ session.windows[3].tabs # <<>>
    /\ Get(Get(all_workspace_urls, "w1"), "0") # Get(Get(all_workspace_urls, "w1"), "1")

\* a == b for two dicts of dicts: the same keys, and under each the same
\* keys with the same values, whatever the insertion orders
WindowMapsEqual(a, b) ==
    Keys(a) = Keys(b) /\ \A k \in Keys(a) : Get(a, k) = Get(b, k)
MapsEqual(a, b) ==
    Keys(a) = Keys(b) /\ \A k \in Keys(a) : WindowMapsEqual(Get(a, k), Get(b, k))

\* C1: select_urls with both filters empty returns a map equal to its input.
C1_EmptyFiltersIdentity ==
    (pc = "selected" /\ workspace_ids = {} /\ window_ids = {})
        => MapsEqual(output_object, all_workspace_urls)

\* C2: with an empty workspace filter and a non-empty window filter K,
\* select_urls keeps every workspace, and under each exactly the windows
\* whose index is in K.
C2_EmptyWorkspaceFilterKeepsAll ==
    (pc = "selected" /\ workspace_ids = {} /\ window_ids # {}) =>
        /\ Keys(output_object) = Keys(all_workspace_urls)
        /\ \A ws \in Keys(output_object) :
              Keys(Get(output_object, ws))
                  = Keys(Get(all_workspace_urls, ws)) \cap window_ids

\* C3: select_urls applied to its own result with the same filters returns
\* that result.
C3_SelectIdempotent ==
    pc = "reselected" => MapsEqual(reselected, output_object)

\* C6: with both filters non-empty, the result's workspaces are those of the
\* input that are in the workspace filter, and under each its windows are
\* those of the input that are in the window filter, with their URL lists;
\* a selected workspace none of whose windows is selected stays, empty.
C6_BothFiltersReference ==
    (pc = "selected" /\ workspace_ids # {} /\ window_ids # {}) =>
        /\ IsDict(output_object)
        /\ Keys(output_object) = Keys(all_workspace_urls) \cap workspace_ids
        /\ \A ws \in Keys(output_object) :
              LET out == Get(output_object, ws)
                  in == Get(all_workspace_urls, ws)
              IN  /\ IsDict(out)
                  /\ Keys(out) = Keys(in) \cap window_ids
                  /\ \A k \in Keys(out) : Get(out, k) = Get(in, k)

\* both filters non-empty; one selected workspace keeps a window, another has
\* windows but keeps none
C6_Witness ==
    /\ pc = "selected"
    /\ workspace_ids # {}
    /\ window_ids # {}
    /\ \E a, b \in Keys(output_object) :
          /\ Get(output_object, a) # <<>>
          /\ Get(output_object, b) = <<>>
          /\ Get(all_workspace_urls, b) # <<>>

\* C7: for every map and every pair of filters, the workspaces of the result
\* are workspaces of the input in the input's order, the windows under each
\* are windows of the input's entry in its order with the same URL lists,
\* and selecting from the empty map gives the empty map.
C7_SelectOnlyRemoves ==
    pc = "selected" =>
        /\ IsSubsequence(KeyList(output_object), KeyList(all_workspace_urls))
        /\ \A ws \in Keys(output_object) :
              IsSubsequence(Get(output_object, ws), Get(all_workspace_urls, ws))
        /\ all_workspace_urls = <<>> => output_object = <<>>

\* a workspace named by the filter is absent from the map; of the two that
\* are present one is dropped, and the other loses its first window
C7_Witness ==
    /\ pc = "selected"
    /\ Len(all_workspace_urls) = 2
    /\ \E ws \in workspace_ids : ws \notin Keys(all_workspace_urls)
    /\ Len(output_object) = 1
    /\ Len(Get(all_workspace_urls, output_object[1][1])) = 2
    /\ output_object[1][2] = Tail(Get(all_workspace_urls, output_object[1][1]))

\* the session directory is known: it was found, or it was given
DirResolved ==
    IF find_session_dir THEN has_profile ELSE session_dir # None
\* the recovery file is a JSON document whose root has no `windows` field
RootLacksWindows ==
    recovery_file.kind = "json" /\ "windows" \notin DOMAIN recovery_file.root

\* C9 as claimed: a recovery file whose JSON root has no `windows` field
\* makes the decoder fail; no document reaches the grouping.
C9_DecoderRejectsMissingWindows ==
    (RootLacksWindows /\ DirResolved /\ pc \notin {"start", "decode"})
        => (pc = "failed" /\ session = NoSession)

\* C9 as amended: for such a file get_session_data returns the document, the
\* grouping then raises KeyError, and nothing is written.
C9_MissingWindowsFailsInGrouping ==
    (RootLacksWindows /\ DirResolved /\ pc \notin {"start", "decode"}) =>
        /\ session = recovery_file.root
        /\ pc \in {"group", "failed"}
        /\ pc = "failed" => error = "KeyError"
        /\ target = <<>>

C9_Witness ==
    /\ RootLacksWindows
    /\ pc = "failed"
    /\ error = "KeyError"
    /\ session = NoWindowsDocument

\* C10: the output is written at most once, and only when the directory was
\* resolved and decoding, grouping and selection all succeeded, and it is
\* then the selected map; a failed run has written nothing and has ended; a
\* run with neither a session directory nor the search configured ends
\* normally with nothing written.
C10_WriteOnlyAfterAllStages ==
    /\ Len(target) <= 1
    /\ target # <<>> =>
          /\ pc = "done"
          /\ error = ""
          /\ DirResolved
          /\ get_session_data(recovery_file).ok
          /\ get_urls_by_window_by_workspace(get_session_data(recovery_file).val).ok
          /\ target =
                <<JsonDumps(select_urls(
                    get_urls_by_window_by_workspace(
                        get_session_data(recovery_file).val).val,
                    workspace_ids, window_ids))>>
    /\ pc = "failed" => (target = <<>> /\ error # "" /\ ~ENABLED NextCli)
    /\ (pc = "done" /\ ~DirResolved) => (target = <<>> /\ error = "")
    /\ (~find_session_dir /\ session_dir = None /\ pc # "start")
          => (pc = "done" /\ target = <<>> /\ error = "" /\ ~ENABLED NextCli)
    /\ (pc = "done" /\ DirResolved) => Len(target) = 1

\* a run that wrote a map with a workspace in it, a window filter given
C10_Witness ==
    /\ pc = "done"
    /\ Len(target) = 1
    /\ target[1].json # <<>>
    /\ window_ids # {}
    /\ Len(session.windows) > Len(target[1].json)

====
